---- MODULE Spec2Model ----
(***************************************************************************)
(* Medical claims dashboard: the in-memory claim store (claimsData), the   *)
(* /api/claims route handlers (list, create), the /api/claims/[id] lookup, *)
(* the /api/stats route, the /api/proxy/analyze route with its normalizer  *)
(* and mock fallback, and the /api/proxy/[...path] pass-through handlers.  *)
(*                                                                         *)
(* JavaScript values that travel through the handlers unchanged (request   *)
(* fields, the analysis result) are tagged records; strings the handlers   *)
(* build themselves (ids, dates, sizes) are sequences of one-character     *)
(* strings so that their format can be inspected.                          *)
(***************************************************************************)
EXTENDS Integers, Sequences, FiniteSets, TLC

\* Number of creates a behaviour performs on top of the initial store.
MaxCreates == 2
\* Size of the initial store in the large-store specification.
LargeSeed == 998

-----------------------------------------------------------------------------
(* JavaScript values *)

JUndef == [t |-> "undefined"]
JNull == [t |-> "null"]
JStr(s) == [t |-> "string", s |-> s]
JNum(n) == [t |-> "number", n |-> n]
JArr(a) == [t |-> "array", a |-> a]
JObj(o) == [t |-> "object", o |-> o]

\* ToBoolean, as applied by `||`, `?:`, `!!` and `if`.
Truthy(v) ==
  CASE v.t = "undefined" -> FALSE
    [] v.t = "null" -> FALSE
    [] v.t = "string" -> v.s # ""
    [] v.t = "number" -> v.n # 0
    [] OTHER -> TRUE

\* a || b
OrElse(a, b) == IF Truthy(a) THEN a ELSE b

\* v.name on a value known not to be null/undefined: a property of an object,
\* undefined on a primitive or when the object has no such key.
Prop(v, name) ==
  IF v.t = "object" /\ name \in DOMAIN v.o THEN v.o[name] ELSE JUndef

\* v?.name
OptProp(v, name) ==
  IF v.t \in {"undefined", "null"} THEN JUndef ELSE Prop(v, name)

-----------------------------------------------------------------------------
(* Strings built by the handlers: sequences of characters *)

DigitChar(d) == <<"0", "1", "2", "3", "4", "5", "6", "7", "8", "9">>[d + 1]

Digits == {DigitChar(d) : d \in 0..9}

\* String(n) for a non-negative integer n.
RECURSIVE NumberToString(_)
NumberToString(n) ==
  IF n < 10 THEN <<DigitChar(n)>>
  ELSE Append(NumberToString(n \div 10), DigitChar(n % 10))

\* A sequence of characters as one string.
RECURSIVE Text(_)
Text(chars) == IF chars = <<>> THEN "" ELSE Head(chars) \o Text(Tail(chars))

\* The decimal text of an integer.
NumberText(n) ==
  IF n < 0 THEN "-" \o Text(NumberToString(-n)) ELSE Text(NumberToString(n))

\* String conversion of v raises a TypeError: v is an object with a key
\* toString, which is never callable in a value parsed from JSON, or an
\* array that has such an object among the elements it converts.
RECURSIVE StringThrows(_)
StringThrows(v) ==
  CASE v.t = "object" -> "toString" \in DOMAIN v.o
    [] v.t = "array" -> \E i \in 1..Len(v.a) : StringThrows(v.a[i])
    [] OTHER -> FALSE

\* An object that a template literal, join and FormData.append cannot
\* convert to a string.
Unprintable == JObj([toString |-> JNum(1)])

\* String conversion of a value on which it does not throw: a number gives
\* its decimal text, an array the join of its elements with ",", a File
\* "[object File]", a plain object "[object Object]".
RECURSIVE StringOf(_)

\* Array.prototype.join's conversion of one element: nothing for undefined
\* and null, the element's text otherwise.
RECURSIVE JoinStr(_)

\* a.join(sep), a a sequence of values.
RECURSIVE Join(_, _)

StringOf(v) ==
  CASE v.t = "undefined" -> "undefined"
    [] v.t = "null" -> "null"
    [] v.t = "string" -> v.s
    [] v.t = "number" -> NumberText(v.n)
    [] v.t = "array" -> Join(v.a, ",")
    [] v.t = "file" -> "[object File]"
    [] OTHER -> "[object Object]"

JoinStr(v) ==
  IF v.t \in {"undefined", "null"} THEN "" ELSE StringOf(v)

Join(a, sep) ==
  IF Len(a) = 0 THEN ""
  ELSE IF Len(a) = 1 THEN JoinStr(a[1])
  ELSE JoinStr(a[1]) \o sep \o Join(Tail(a), sep)

\* String conversion inside a template literal.
TemplateStr(v) == StringOf(v)

\* s.padStart(targetLength, ch): pads on the left, never truncates.
padStartNoPadding(s, targetLength, ch) == s
padStart(s, targetLength, ch) ==
  IF Len(s) >= targetLength THEN s
  ELSE [i \in 1..(targetLength - Len(s)) |-> ch] \o s

\* new Date().toLocaleDateString("en-GB"): dd/mm/yyyy.
toLocaleDateString(date) ==
  padStart(NumberToString(date.d), 2, "0") \o <<"/">>
    \o padStart(NumberToString(date.m), 2, "0") \o <<"/">>
    \o NumberToString(date.y)

\* x.toFixed(2) for x = size / 1024 / 1024: the nearest hundredth, the larger
\* one on a tie.
sizeToFixed2(size) ==
  LET h == (size * 100 + 524288) \div 1048576
  IN NumberToString(h \div 100) \o <<".">> \o padStart(NumberToString(h % 100), 2, "0")

\* `CLM-2024-${String(claimCount).padStart(3, "0")}`
newClaimIdFromStaleCount(storeLen) ==
  <<"C", "L", "M", "-", "2", "0", "2", "4", "-">>
    \o padStart(NumberToString(1), 3, "0")
newClaimId(storeLen) ==
  <<"C", "L", "M", "-", "2", "0", "2", "4", "-">>
    \o padStart(NumberToString(storeLen + 1), 3, "0")

-----------------------------------------------------------------------------
(* The analysis-response normalizer of POST /api/proxy/analyze *)

EmptyObject == JObj(<<>>)

\* data.document_analysis?.validation_errors?.map((e) => e.error).join(". ")
\* raises a TypeError when validation_errors is neither nullish nor an array,
\* when an element of the array is nullish, and when join cannot convert the
\* error of an element.
ValidationErrorsThrow(ve) ==
  \/ ve.t \notin {"undefined", "null", "array"}
  \/ /\ ve.t = "array"
     /\ \E i \in 1..Len(ve.a) :
          \/ ve.a[i].t \in {"undefined", "null"}
          \/ StringThrows(Prop(ve.a[i], "error"))

JoinedValidationErrors(ve) ==
  IF ve.t \in {"undefined", "null"} THEN JUndef
  ELSE JStr(Join([i \in 1..Len(ve.a) |-> Prop(ve.a[i], "error")], ". "))

DocumentAnalysis(data) == Prop(data, "document_analysis")

\* Evaluating the object literal of transformedData raises a TypeError:
\* data is null, or the validation_errors chain is reached (processing_notes
\* is falsy) and throws.
TransformThrows(data) ==
  \/ data.t \in {"undefined", "null"}
  \/ /\ ~Truthy(OptProp(DocumentAnalysis(data), "processing_notes"))
     /\ ValidationErrorsThrow(OptProp(DocumentAnalysis(data), "validation_errors"))

\* A status that copies overall_status without mapping the two known values.
TransformedStatusNoMapping(data) ==
  OrElse(OrElse(OptProp(DocumentAnalysis(data), "overall_status"),
                Prop(data, "status")),
         JStr("pending"))

TransformedStatus(data) ==
  LET overall == OptProp(DocumentAnalysis(data), "overall_status")
  IN IF overall = JStr("COMPLETE") THEN JStr("approved")
     ELSE IF overall = JStr("INCOMPLETE") THEN JStr("pending")
     ELSE OrElse(OrElse(overall, Prop(data, "status")), JStr("pending"))

DetailedAnalysisDefault ==
  "Document analysis completed successfully. All required fields have been extracted and validated."

\* A decision_reasoning that never looks at validation_errors.
DecisionReasoningWithoutErrors(data) ==
  OrElse(OptProp(DocumentAnalysis(data), "processing_notes"),
         JStr("Document analyzed successfully"))

\* transformedData.decision_reasoning, for a data on which it does not throw.
DecisionReasoning(data) ==
  LET da == DocumentAnalysis(data)
      notes == OptProp(da, "processing_notes")
  IN IF Truthy(notes) THEN notes
     ELSE OrElse(JoinedValidationErrors(OptProp(da, "validation_errors")),
                 JStr("Document analyzed successfully"))

\* transformedData, for a data on which the literal does not throw.
TransformedData(data) ==
  LET da == DocumentAnalysis(data)
      notes == OptProp(da, "processing_notes")
  IN JObj([
       status |-> TransformedStatus(data),
       confidence |-> OrElse(OptProp(da, "confidence_level"), JNum(0)),
       completeness |-> OrElse(OptProp(da, "completeness_score"), JNum(0)),
       decision_reasoning |-> DecisionReasoning(data),
       detailed_analysis |-> OrElse(notes, JStr(DetailedAnalysisDefault)),
       improvement_suggestions |->
         OrElse(OrElse(Prop(data, "improvement_suggestions"),
                       OptProp(da, "recommendations")),
                JArr(<<>>)),
       extracted_data |-> OrElse(OptProp(da, "extracted_data"), EmptyObject)
     ])

\* The mock result returned from the catch block.
MockResult ==
  JObj([
    status |-> JStr("approved"),
    confidence |-> JNum(95),
    completeness |-> JNum(100),
    decision_reasoning |-> JStr("The claim was approved as it contains all required information, including a valid policy number and a clear description of the incident. The documentation provided, such as the medical report and photos of the treatment, supports the claim and aligns with the estimated costs. Additionally, the incident occurred within the coverage dates, and there are no indicators of fraud or discrepancies."),
    detailed_analysis |-> JStr(DetailedAnalysisDefault),
    improvement_suggestions |->
      JArr(<<JStr("Consider adding more detailed treatment notes"),
             JStr("Include itemized billing statement")>>),
    extracted_data |->
      JObj([billed_amount |-> JNum(2850),
            patient_name |-> JStr("John Michael Smith"),
            policy_number |-> JStr("POL-2024-789456"),
            service_date |-> JStr("2024-10-15")])
  ])

\* Bodies the external analysis service answers with.
ExternalData ==
  { JObj([status |-> JStr("analyzed"),
          document_analysis |->
            JObj([overall_status |-> JStr("COMPLETE"),
                  confidence_level |-> JNum(88),
                  completeness_score |-> JNum(100),
                  processing_notes |-> JStr("All fields present"),
                  extracted_data |-> JObj([patient_name |-> JStr("Jane Roe")])])]),
    JObj([status |-> JStr("analyzed"),
          document_analysis |->
            JObj([overall_status |-> JStr("INCOMPLETE"),
                  validation_errors |->
                    JArr(<<JObj([error |-> JStr("Missing policy number")]),
                           JObj([error |-> JStr("Missing date")])>>)]),
          improvement_suggestions |-> JArr(<<JStr("Attach the invoice")>>)]),
    JObj([status |-> JStr("analyzed"),
          document_analysis |->
            JObj([overall_status |-> JStr("PARTIAL"),
                  validation_errors |-> JArr(<<>>),
                  recommendations |-> JArr(<<JStr("Rescan page 2")>>)])]),
    JObj([status |-> JStr("analyzed")]),
    JObj([document_analysis |-> JObj([validation_errors |-> JStr("bad")])]),
    JObj([document_analysis |->
            JObj([validation_errors |->
                    JArr(<<JObj([error |-> Unprintable])>>)])]),
    JObj([status |-> JStr("analyzed"),
          document_analysis |->
            JObj([overall_status |-> JStr("COMPLETE"),
                  processing_notes |-> JStr("Checked twice"),
                  validation_errors |->
                    JArr(<<JObj([error |-> JStr("Blurred scan")])>>)])]),
    JObj([status |-> JStr("analyzed"),
          document_analysis |->
            JObj([overall_status |-> JStr(""),
                  processing_notes |-> JStr(""),
                  validation_errors |-> JArr(<<JObj([field |-> JStr("date")])>>)])]),
    JObj([status |-> JStr(""),
          document_analysis |-> JObj([validation_errors |-> JArr(<<JNull>>)])]),
    JObj([status |-> JStr("rejected"), document_analysis |-> JNull]),
    EmptyObject,
    JNull }

-----------------------------------------------------------------------------
(* The claim store and the state of the service *)

VARIABLES
  claimsData,  \* the process-wide list of claims (lib/data)
  today,       \* the calendar date new Date() reads, [d, m, y]; fixed per run
  req,         \* the request handled last
  resp,        \* the response given to it, [status, body]
  created,     \* history: the claims answered with 201, in order
  fetches,     \* the calls to the external service made for the last request
  pending,     \* the POST /api/claims handlers suspended at their await
  page         \* the state of the submission form (NewClaimPage)

vars == <<claimsData, today, req, resp, created, fetches, pending, page>>

\* The date of the initial store's claims.
SeedDate == [d |-> 31, m |-> 12, y |-> 2024]

\* Calendar dates on which the service runs; a behaviour spans one of them.
Dates == { SeedDate, [d |-> 1, m |-> 1, y |-> 2025] }

StatusValues == {"approved", "pending", "under-review", "rejected"}

StatusCycle == <<"approved", "pending", "under-review", "rejected">>

TimelineStages ==
  << "Claim submitted", "Documents verified by AI",
     "Under review by claim handler", "Approved for payment",
     "Payment processed" >>

\* The i-th claim of the initial store: ids follow the size-based scheme, the
\* statuses run through the four status values.
SeedId(i) ==
  <<"C", "L", "M", "-", "2", "0", "2", "4", "-">>
    \o (IF i < 10 THEN <<"0", "0">> ELSE IF i < 100 THEN <<"0">> ELSE <<>>)
    \o NumberToString(i)

SeedClaim(i) ==
  [ id |-> SeedId(i),
    patientId |-> JStr("PAT-SEED"),
    patientName |-> "Seed Patient",
    status |-> JStr(StatusCycle[((i - 1) % 4) + 1]),
    type |-> JStr("outpatient"),
    provider |-> JStr("City Clinic"),
    amount |-> JStr("100.00"),
    submitted |-> toLocaleDateString(SeedDate),
    dob |-> JStr("1990-01-01"),
    serviceDate |-> JStr("2024-01-01"),
    diagnosis |-> JStr("Checkup"),
    notes |-> JStr(""),
    timeline |->
      [k \in 1..5 |->
        [ status |-> TimelineStages[k],
          date |-> IF k = 1 THEN toLocaleDateString(SeedDate) ELSE <<>>,
          completed |-> (k = 1) ]],
    documents |-> <<>> ]

SeedStore(n) == [i \in 1..n |-> SeedClaim(i)]

\* Sizes of the initial store.
SeedSizes == {0, 4}

NoRequest == [op |-> "none"]
NoResponse == [status |-> 0, body |-> JNull]

\* useState of the form page: empty fields, no files, no analysis result,
\* both flags false. toast is the title of the toast shown last, event the
\* handler that ran last; analyzeCall and submitCall hold the request of the
\* fetch a handler is waiting for.
NoCall == [t |-> "none"]

\* No state update of the page waits for a render.
NoUpdates == [t |-> "none"]

InitialFormData ==
  [ firstName |-> JStr(""), lastName |-> JStr(""), dob |-> JStr(""),
    patientId |-> JStr(""), claimType |-> JStr(""), serviceDate |-> JStr(""),
    provider |-> JStr(""), amount |-> JStr(""), diagnosis |-> JStr(""),
    notes |-> JStr("") ]

\* The state of the page component as last rendered, the toast shown last,
\* the handler that ran last, the requests in flight, the state updates an
\* awaited continuation has queued for the next render, whether a render
\* of the page has thrown (the page is then off the screen and the state
\* fields hold its last render), whether the timer that calls
\* router.push("/") is running, and whether the page has been left for the
\* dashboard.
InitialPage ==
  [ files |-> <<>>,
    isSubmitting |-> FALSE,
    isAnalyzing |-> FALSE,
    analysisResult |-> JNull,
    formData |-> InitialFormData,
    toast |-> "",
    event |-> "none",
    analyzeCall |-> NoCall,
    submitCall |-> NoCall,
    queued |-> NoUpdates,
    renderFailed |-> FALSE,
    redirectPending |-> FALSE,
    left |-> FALSE ]

Init ==
  /\ claimsData \in {SeedStore(n) : n \in SeedSizes}
  /\ today \in Dates
  /\ req = NoRequest
  /\ resp = NoResponse
  /\ created = <<>>
  /\ fetches = <<>>
  /\ pending = <<>>
  /\ page = InitialPage

-----------------------------------------------------------------------------
(* GET /api/claims and GET /api/claims/[id] *)

\* searchParams.get("status"): null when the parameter is absent.
QueryStatuses ==
  {JNull} \cup {JStr(s) : s \in StatusValues \cup {"", "all", "PARTIAL"}}

\* claimsData.filter((c) => c.status === status)
FilterByStatus(status) == SelectSeq(claimsData, LAMBDA c : c.status = status)

\* A listing that takes the sentinel all for a status to filter by.
ListingFiltersSentinel(status) ==
  IF Truthy(status) THEN FilterByStatus(status) ELSE claimsData

\* The list the GET handler answers with.
Listing(status) ==
  IF Truthy(status) /\ status # JStr("all") THEN FilterByStatus(status)
  ELSE claimsData

\* A listing that keeps the filtered array as the store.
ListClaimsFilteringInPlace(status) ==
  /\ req' = [op |-> "GET /api/claims", status |-> status]
  /\ resp' = [status |-> 200, body |-> Listing(status)]
  /\ claimsData' = Listing(status)
  /\ fetches' = <<>>
  /\ UNCHANGED <<today, created, pending, page>>

ListClaims(status) ==
  /\ req' = [op |-> "GET /api/claims", status |-> status]
  /\ resp' = [status |-> 200, body |-> Listing(status)]
  /\ fetches' = <<>>
  /\ UNCHANGED <<claimsData, today, created, pending, page>>

\* claimsData.find((c) => c.id === id): the first match, undefined when none.
FindWithAssignment(id) ==
  IF Len(claimsData) = 0 THEN JUndef ELSE claimsData[1]
Find(id) ==
  LET hits == {i \in 1..Len(claimsData) : claimsData[i].id = id}
  IN IF hits = {} THEN JUndef
     ELSE claimsData[CHOOSE i \in hits : \A j \in hits : i <= j]

\* Ids asked for: the first id of the scheme, the ids answered by the creates
\* so far, the id the scheme assigns next, and one it never assigns.
LookupIds ==
  {newClaimId(0), newClaimId(Len(claimsData)), <<"n", "o", "n", "e">>}
    \cup {created[i].id : i \in 1..Len(created)}

\* A lookup that answers without testing whether a claim was found.
GetClaimWithoutCheck(id) ==
  /\ req' = [op |-> "GET /api/claims/[id]", id |-> id]
  /\ resp' = [status |-> 200, body |-> Find(id)]
  /\ fetches' = <<>>
  /\ UNCHANGED <<claimsData, today, created, pending, page>>

GetClaim(id) ==
  /\ req' = [op |-> "GET /api/claims/[id]", id |-> id]
  /\ resp' = IF Find(id) = JUndef
             THEN [status |-> 404, body |-> [error |-> "Claim not found"]]
             ELSE [status |-> 200, body |-> Find(id)]
  /\ fetches' = <<>>
  /\ UNCHANGED <<claimsData, today, created, pending, page>>

-----------------------------------------------------------------------------
(* GET /api/stats *)

CountStatus(store, status) ==
  Len(SelectSeq(store, LAMBDA c : c.status = JStr(status)))

\* getStats() of lib/data over a store: the number of claims and the numbers
\* of approved, pending and rejected ones.
getStats(store) ==
  [ total |-> Len(store),
    approved |-> CountStatus(store, "approved"),
    pending |-> CountStatus(store, "pending"),
    rejected |-> CountStatus(store, "rejected") ]

\* Stats computed once, when the route module is loaded.
StatsAtModuleLoad ==
  getStats(SubSeq(claimsData, 1, Len(claimsData) - Len(created)))

\* const stats = getStats(), evaluated in the handler on every request.
StatsOfRequest == getStats(claimsData)

GetStats ==
  /\ req' = [op |-> "GET /api/stats"]
  /\ resp' = [status |-> 200, body |-> StatsOfRequest]
  /\ fetches' = <<>>
  /\ UNCHANGED <<claimsData, today, created, pending, page>>

-----------------------------------------------------------------------------
(* POST /api/claims *)

RequiredFields ==
  { "firstName", "lastName", "dob", "patientId", "claimType", "serviceDate",
    "provider", "amount", "diagnosis" }

FieldNames == RequiredFields \cup {"notes"}

Multipart == "multipart/form-data; boundary=x"
Json == "application/json"

\* contentType?.includes("multipart/form-data")
IsMultipart(contentType) == contentType = Multipart

\* The text of a form field that holds JSON is kept as the value it encodes
\* (t = "jsontext"); a text that encodes nothing has t = "badtext".
JsonText(v) == [t |-> "jsontext", v |-> v]
BadText == [t |-> "badtext"]

JSONparseThrows(text) == text.t # "jsontext"
JSONparse(text) == text.v

\* doc instanceof File
IsFile(doc) == doc.t = "file"
File(name, size) == [t |-> "file", name |-> name, size |-> size]

\* A request to POST /api/claims: its content type, how reading its body ends
\* ("ok", "reject": formData()/json() rejects, "null": the JSON body is null),
\* its fields, its analysisResult entry and its documents entries.
\* The body the handler works on. An object property that holds undefined
\* and a missing property are the same field here.
BodyOf(r) ==
  IF IsMultipart(r.contentType)
  THEN JObj([k \in FieldNames \cup {"analysisResult"} |->
              IF k = "analysisResult"
              THEN IF Truthy(r.analysisResult) THEN JSONparse(r.analysisResult)
                   ELSE JNull
              ELSE r.fields[k]])
  ELSE IF r.read = "null" THEN JNull
  ELSE JObj([k \in FieldNames \cup {"analysisResult"} |->
              IF k = "analysisResult" THEN r.analysisResult ELSE r.fields[k]])

FilesOf(r) ==
  IF IsMultipart(r.contentType) THEN SelectSeq(r.documents, IsFile) ELSE <<>>

\* The template literal of patientName cannot convert one of the two names.
PatientNameThrows(body) ==
  StringThrows(Prop(body, "firstName")) \/ StringThrows(Prop(body, "lastName"))

\* The try block of the handler throws before it reaches claimsData.push.
\* Reading the body fails: formData() or json() rejects, or JSON.parse of
\* the analysisResult entry throws.
ReadThrows(r) ==
  \/ r.read = "reject"
  \/ /\ IsMultipart(r.contentType)
     /\ Truthy(r.analysisResult)
     /\ JSONparseThrows(r.analysisResult)

PostThrows(r) ==
  IF ReadThrows(r) THEN TRUE
  ELSE IF ~IsMultipart(r.contentType) /\ r.read = "null" THEN TRUE
  ELSE PatientNameThrows(BodyOf(r))

\* request.json() also rejects on a multipart body.
LegacyPostThrows(r) ==
  IF r.read \in {"reject", "null"} \/ IsMultipart(r.contentType) THEN TRUE
  ELSE PatientNameThrows(BodyOf(r))

\* body.analysisResult?.status || "pending"
NewClaimStatus(body) ==
  OrElse(OptProp(Prop(body, "analysisResult"), "status"), JStr("pending"))

NewClaimAiAnalysis(body) ==
  LET ar == Prop(body, "analysisResult")
  IN IF Truthy(ar)
     THEN JObj([
            confidence |-> OrElse(Prop(ar, "confidence"), JNum(0)),
            completeness |-> OrElse(Prop(ar, "completeness"), JNum(0)),
            decisionReasoning |-> OrElse(Prop(ar, "decision_reasoning"), JStr("")),
            detailedAnalysis |-> OrElse(Prop(ar, "detailed_analysis"), JStr("")),
            improvementSuggestions |->
              OrElse(Prop(ar, "improvement_suggestions"), JArr(<<>>)),
            extractedData |-> OrElse(Prop(ar, "extracted_data"), EmptyObject)
          ])
     ELSE JNull

\* timeline of the handler that takes no analysis result.
LegacyTimeline(date) ==
  << [ status |-> "Claim submitted",
       date |-> toLocaleDateString(date), completed |-> TRUE ],
     [ status |-> "Documents verified by AI", date |-> <<>>, completed |-> FALSE ],
     [ status |-> "Under review by claim handler",
       date |-> <<>>, completed |-> FALSE ],
     [ status |-> "Approved for payment", date |-> <<>>, completed |-> FALSE ],
     [ status |-> "Payment processed", date |-> <<>>, completed |-> FALSE ] >>

NewClaimTimeline(body, date) ==
  LET ar == Prop(body, "analysisResult")
  IN << [ status |-> "Claim submitted",
          date |-> toLocaleDateString(date), completed |-> TRUE ],
        [ status |-> "Documents verified by AI",
          date |-> IF Truthy(ar) THEN toLocaleDateString(date) ELSE <<>>,
          completed |-> Truthy(ar) ],
        [ status |-> "Under review by claim handler",
          date |-> <<>>, completed |-> FALSE ],
        [ status |-> "Approved for payment", date |-> <<>>, completed |-> FALSE ],
        [ status |-> "Payment processed", date |-> <<>>, completed |-> FALSE ] >>

NewClaimDocuments(files, date) ==
  [i \in 1..Len(files) |->
    [ name |-> files[i].name,
      size |-> sizeToFixed2(files[i].size) \o <<" ", "M", "B">>,
      uploadedDate |-> toLocaleDateString(date) ]]

\* newClaim of the handler, built over a store of storeLen claims; the calls
\* of new Date() in one run of the handler read the same date.
NewClaim(body, files, storeLen, date) ==
  [ id |-> newClaimId(storeLen),
    patientId |-> Prop(body, "patientId"),
    patientName |->
      TemplateStr(Prop(body, "firstName")) \o " " \o TemplateStr(Prop(body, "lastName")),
    status |-> NewClaimStatus(body),
    type |-> Prop(body, "claimType"),
    provider |-> Prop(body, "provider"),
    amount |-> Prop(body, "amount"),
    submitted |-> toLocaleDateString(date),
    dob |-> Prop(body, "dob"),
    serviceDate |-> Prop(body, "serviceDate"),
    diagnosis |-> Prop(body, "diagnosis"),
    notes |-> OrElse(Prop(body, "notes"), JStr("")),
    aiAnalysis |-> NewClaimAiAnalysis(body),
    timeline |-> NewClaimTimeline(body, date),
    documents |-> NewClaimDocuments(files, date) ]

\* newClaim of the handler that reads a JSON body only and takes no analysis
\* result and no files.
LegacyNewClaim(body, storeLen, date) ==
  [ id |-> newClaimId(storeLen),
    patientId |-> Prop(body, "patientId"),
    patientName |->
      TemplateStr(Prop(body, "firstName")) \o " " \o TemplateStr(Prop(body, "lastName")),
    status |-> JStr("pending"),
    type |-> Prop(body, "claimType"),
    provider |-> Prop(body, "provider"),
    amount |-> Prop(body, "amount"),
    submitted |-> toLocaleDateString(date),
    dob |-> Prop(body, "dob"),
    serviceDate |-> Prop(body, "serviceDate"),
    diagnosis |-> Prop(body, "diagnosis"),
    notes |-> OrElse(Prop(body, "notes"), JStr("")),
    timeline |-> LegacyTimeline(date),
    documents |-> <<>> ]

\* claimsData.push(newClaim)
PushFront(store, claim) == <<claim>> \o store
Push(store, claim) == Append(store, claim)

CreateErrorBody == [error |-> "Failed to create claim"]

\* A handler whose catch block blames the request.
PostClaimsAnsweringBadRequest(r) ==
  /\ PostThrows(r) \/ Len(created) < MaxCreates
  /\ req' = [op |-> "POST /api/claims", r |-> r]
  /\ IF PostThrows(r)
     THEN /\ resp' = [status |-> 400, body |-> CreateErrorBody]
          /\ UNCHANGED <<claimsData, created>>
     ELSE LET newClaim == NewClaim(BodyOf(r), FilesOf(r), Len(claimsData), today)
          IN /\ claimsData' = Push(claimsData, newClaim)
             /\ resp' = [status |-> 201, body |-> newClaim]
             /\ created' = Append(created, newClaim)
  /\ fetches' = <<>>
  /\ UNCHANGED <<today, pending, page>>

\* The handler from the moment the body has been read: it builds the claim,
\* pushes it and answers 201, or answers 500 from the catch block.
PostClaims(r) ==
  /\ PostThrows(r) \/ Len(created) < MaxCreates
  /\ req' = [op |-> "POST /api/claims", r |-> r]
  /\ IF PostThrows(r)
     THEN /\ resp' = [status |-> 500, body |-> CreateErrorBody]
          /\ UNCHANGED <<claimsData, created>>
     ELSE LET newClaim == NewClaim(BodyOf(r), FilesOf(r), Len(claimsData), today)
          IN /\ claimsData' = Push(claimsData, newClaim)
             /\ resp' = [status |-> 201, body |-> newClaim]
             /\ created' = Append(created, newClaim)
  /\ fetches' = <<>>
  /\ UNCHANGED <<today, pending, page>>

LegacyPostClaims(r) ==
  /\ LegacyPostThrows(r) \/ Len(created) < MaxCreates
  /\ req' = [op |-> "POST /api/claims (legacy)", r |-> r]
  /\ IF LegacyPostThrows(r)
     THEN /\ resp' = [status |-> 500, body |-> CreateErrorBody]
          /\ UNCHANGED <<claimsData, created>>
     ELSE LET newClaim == LegacyNewClaim(BodyOf(r), Len(claimsData), today)
          IN /\ claimsData' = Push(claimsData, newClaim)
             /\ resp' = [status |-> 201, body |-> newClaim]
             /\ created' = Append(created, newClaim)
  /\ fetches' = <<>>
  /\ UNCHANGED <<today, pending, page>>

-----------------------------------------------------------------------------
(* The requests the service is driven with *)

\* The submission of the specification's concrete scenario.
BaseFields ==
  [ firstName |-> JStr("John"), lastName |-> JStr("Doe"),
    dob |-> JStr("1990-01-01"), patientId |-> JStr("PAT-1"),
    claimType |-> JStr("outpatient"), serviceDate |-> JStr("2024-01-01"),
    provider |-> JStr("City Clinic"), amount |-> JStr("100.00"),
    diagnosis |-> JStr("Checkup"), notes |-> JStr("") ]

\* formData.get yields null for a missing field; a JSON body may also lack
\* the key (undefined).
MultipartFieldVariants ==
  { BaseFields,
    [BaseFields EXCEPT !.amount = JStr("")] }

JsonFieldVariants ==
  { BaseFields,
    [BaseFields EXCEPT !.diagnosis = JUndef, !.notes = JStr("urgent")],
    [BaseFields EXCEPT !.firstName = Unprintable] }

PartialData ==
  JObj([status |-> JStr("analyzed"),
        document_analysis |->
          JObj([overall_status |-> JStr("PARTIAL"),
                validation_errors |-> JArr(<<>>),
                recommendations |-> JArr(<<JStr("Rescan page 2")>>)])])

\* The analysisResult entry of a multipart form: absent, an empty text, a text
\* that is no JSON, or the JSON text of a value.
MultipartAnalysisInputs ==
  { JNull, JStr(""), BadText, JsonText(JNull),
    JsonText(MockResult), JsonText(TransformedData(PartialData)) }

\* The analysisResult property of a JSON body.
JsonAnalysisInputs ==
  { JUndef, JNull,
    JObj([status |-> JStr(""), confidence |-> JNum(40)]),
    JObj([status |-> JStr("all"), completeness |-> JNum(10)]) }

DocumentLists ==
  { <<>>,
    <<File("bill.pdf", 2621440), JStr("not a file"), File("scan.pdf", 5243)>> }

BaseRequest(contentType) ==
  [ contentType |-> contentType, read |-> "ok", fields |-> BaseFields,
    analysisResult |-> IF IsMultipart(contentType) THEN JNull ELSE JUndef,
    documents |-> <<>> ]

\* Each request differs from the base submission in one respect.
MultipartRequests ==
  LET base == BaseRequest(Multipart)
  IN {[base EXCEPT !.fields = f] : f \in MultipartFieldVariants}
       \cup {[base EXCEPT !.analysisResult = a] : a \in MultipartAnalysisInputs}
       \cup {[base EXCEPT !.documents = d] : d \in DocumentLists}
       \cup {[base EXCEPT !.read = "reject"]}

JsonRequests ==
  LET base == BaseRequest(Json)
  IN {[base EXCEPT !.fields = f] : f \in JsonFieldVariants}
       \cup {[base EXCEPT !.analysisResult = a] : a \in JsonAnalysisInputs}
       \cup {[base EXCEPT !.read = k] : k \in {"reject", "null"}}

LegacyPostRequests ==
  LET base == BaseRequest(Json)
  IN { base,
       [base EXCEPT !.analysisResult = MockResult],
       [base EXCEPT !.read = "reject"],
       BaseRequest(Multipart) }

-----------------------------------------------------------------------------
(* Specifications *)

Next ==
  \/ \E status \in QueryStatuses : ListClaims(status)
  \/ \E id \in LookupIds : GetClaim(id)
  \/ GetStats
  \/ \E r \in MultipartRequests \cup JsonRequests : PostClaims(r)
  \/ \E r \in LegacyPostRequests : LegacyPostClaims(r)

Spec == Init /\ [][Next]_vars

\* The service over a store that has grown to the end of the three-digit
\* sequence numbers, driven with the base submissions.
InitLarge ==
  /\ claimsData \in {SeedStore(n) : n \in {0, LargeSeed}}
  /\ today \in Dates
  /\ req = NoRequest
  /\ resp = NoResponse
  /\ created = <<>>
  /\ fetches = <<>>
  /\ pending = <<>>
  /\ page = InitialPage

LargePostRequests ==
  { BaseRequest(Json),
    [BaseRequest(Multipart) EXCEPT !.analysisResult = JsonText(MockResult)],
    [BaseRequest(Multipart) EXCEPT !.analysisResult = BadText] }

NextLarge ==
  \/ \E status \in {JNull, JStr("approved")} : ListClaims(status)
  \/ \E id \in LookupIds : GetClaim(id)
  \/ \E r \in LargePostRequests : PostClaims(r)
  \/ \E r \in {BaseRequest(Json), BaseRequest(Multipart)} : LegacyPostClaims(r)

SpecLarge == InitLarge /\ [][NextLarge]_vars

-----------------------------------------------------------------------------
(* POST /api/proxy/analyze *)

FLASK_APP_URL == "http://localhost:8000"

\* How a call to the external service ends: the call fails (no connection),
\* or a response arrives with a status code and a body text.
NetworkError == [kind |-> "network"]
Response(status, body) == [kind |-> "response", status |-> status, body |-> body]

\* A fetch that is issued a second time when the connection fails.
FetchWithRetry(call, out) ==
  IF out.kind = "network"
  THEN << [call |-> call, outcome |-> out], [call |-> call, outcome |-> out] >>
  ELSE << [call |-> call, outcome |-> out] >>

\* await fetch(url, init): the one call a handler makes, and how it ended.
Fetch(call, out) == << [call |-> call, outcome |-> out] >>

\* response.ok
Ok(response) == response.status >= 200 /\ response.status <= 299

\* A request to the analyze route: whether formData() can read its body, its
\* file entry (null when there is none) and its claim_type entry.
AnalyzeRequests ==
  [ readable : BOOLEAN,
    file : {JNull, JStr(""), File("scan.pdf", 1048576), File("bill.png", 0)},
    claim_type : {JNull, JStr(""), JStr("dental")} ]

\* The answers of the external analysis service.
AnalyzeOutcomes ==
  {NetworkError}
    \cup {Response(200, JsonText(d)) : d \in ExternalData}
    \cup {Response(st, BadText) : st \in {200, 404, 500}}
    \cup {Response(st, JsonText(PartialData)) : st \in {201, 400, 503}}

\* A handler that does not look at the file entry.
NoFileUnchecked(r) == FALSE

\* if (!file)
NoFile(r) == ~Truthy(r.file)

NoFileBody == JObj([error |-> JStr("No file provided")])

\* The fetch the handler issues for a request with a file.
AnalyzeFetch(r) ==
  [ url |-> FLASK_APP_URL \o "/api/claims/upload",
    method |-> "POST",
    body |-> [document |-> r.file,
              claim_type |-> OrElse(r.claim_type, JStr("medical"))] ]

\* The try block throws after the fetch was issued with outcome out.
AnalyzeThrowsAfterFetch(out) ==
  \/ out.kind = "network"
  \/ /\ out.kind = "response"
     /\ \/ ~Ok(out)
        \/ JSONparseThrows(out.body)
        \/ TransformThrows(JSONparse(out.body))

\* A catch block that reports the failure to the caller.
AnalyzeCatchReportsError ==
  [status |-> 500, body |-> JObj([error |-> JStr("Failed to analyze document")])]

\* The catch block: the mock result, answered with the default status 200.
AnalyzeCatch == [status |-> 200, body |-> MockResult]

Analyze(r, out) ==
  /\ req' = [op |-> "POST /api/proxy/analyze", r |-> r]
  /\ IF ~r.readable
       THEN /\ fetches' = <<>>
            /\ resp' = AnalyzeCatch
       ELSE IF NoFile(r)
       THEN /\ fetches' = <<>>
            /\ resp' = [status |-> 400, body |-> NoFileBody]
       ELSE /\ fetches' = Fetch(AnalyzeFetch(r), out)
            /\ resp' = IF AnalyzeThrowsAfterFetch(out) THEN AnalyzeCatch
                       ELSE [status |-> 200,
                             body |-> TransformedData(JSONparse(out.body))]
  /\ UNCHANGED <<claimsData, today, created, pending, page>>

NextAnalyze == \E r \in AnalyzeRequests, out \in AnalyzeOutcomes : Analyze(r, out)

SpecAnalyze == Init /\ [][NextAnalyze]_vars

-----------------------------------------------------------------------------
(* /api/proxy/[...path]: GET, POST, PUT and DELETE *)

\* params.path: the segments of the sub-path.
ProxyPaths ==
  { <<JStr("health")>>, <<JStr("api"), JStr("claims"), JStr("42")>> }

\* request.nextUrl.searchParams.toString()
ProxyQueries == {"", "status=pending", "page=2&limit=10"}

\* The texts of the incoming request bodies of POST and PUT.
ProxyBodies ==
  { JsonText(JObj([claim_type |-> JStr("dental")])),
    JsonText(JArr(<<JNum(1), JNull>>)),
    BadText }

\* The answers of the backend. A response with a status that carries no
\* body (204) has an empty body text, which is not JSON.
ProxyOutcomes ==
  {NetworkError}
    \cup { Response(st, JsonText(d)) :
             st \in {200, 201, 404, 500},
             d \in { JObj([detail |-> JStr("Not Found")]),
                     JArr(<<JObj([id |-> JNum(42)])>>),
                     JNull } }
    \cup { Response(st, BadText) : st \in {200, 204, 502} }

\* An url built with the query string whatever the method is.
ProxyUrlAlwaysWithQuery(method, path, query) ==
  FLASK_APP_URL \o "/" \o Join(path, "/")
    \o (IF query # "" THEN "?" \o query ELSE "")

\* const url: GET and PUT append the query string when it is not empty, POST
\* and DELETE leave it out.
ProxyUrl(method, path, query) ==
  FLASK_APP_URL \o "/" \o Join(path, "/")
    \o (IF method \in {"GET", "PUT"} /\ query # "" THEN "?" \o query ELSE "")

\* POST and PUT read the incoming body with request.json() inside the try.
ProxyReadsBody(method) == method \in {"POST", "PUT"}

\* JSON.stringify of a parsed JSON value: its text.
JSONstringify(v) == JsonText(v)

\* The fetch of a handler; GET and DELETE send no body.
ProxyFetch(method, path, query, body) ==
  [ url |-> ProxyUrl(method, path, query),
    method |-> method,
    body |-> IF ProxyReadsBody(method) THEN JSONstringify(JSONparse(body))
             ELSE JUndef ]

\* After the fetch the try block throws: the fetch rejects, response.json()
\* rejects, or NextResponse.json cannot build a response with the status:
\* 204, 205 and 304 take no body, and a status is in 200..599.
ProxyThrowsAfterFetch(out) ==
  \/ out.kind = "network"
  \/ /\ out.kind = "response"
     /\ \/ JSONparseThrows(out.body)
        \/ out.status \in {204, 205, 304}
        \/ out.status < 200
        \/ out.status > 599

ProxyErrorMessage(method) ==
  CASE method = "GET" -> "Failed to fetch from FastAPI server"
    [] method = "POST" -> "Failed to post to FastAPI server"
    [] method = "PUT" -> "Failed to update on FastAPI server"
    [] method = "DELETE" -> "Failed to delete on FastAPI server"

\* A catch block that answers as a gateway and passes the cause on.
ProxyCatchWithCause(method) ==
  [status |-> 502, body |-> JObj([error |-> JStr(ProxyErrorMessage(method)),
                                   cause |-> JStr("fetch failed")])]

\* The catch block of a handler.
ProxyCatch(method) ==
  [status |-> 500, body |-> JObj([error |-> JStr(ProxyErrorMessage(method))])]

\* A relay that always answers 200.
ProxyRelayAsSuccess(out) == [status |-> 200, body |-> JSONparse(out.body)]

\* NextResponse.json(data, { status: response.status })
ProxyRelay(out) == [status |-> out.status, body |-> JSONparse(out.body)]

\* One handler of the route, from the request to the response.
ProxyHandle(method, path, query, body, out) ==
  /\ req' = [op |-> "/api/proxy/[...path]", method |-> method, path |-> path,
             query |-> query, body |-> body]
  /\ IF ProxyReadsBody(method) /\ JSONparseThrows(body)
       THEN /\ fetches' = <<>>
            /\ resp' = ProxyCatch(method)
       ELSE /\ fetches' = Fetch(ProxyFetch(method, path, query, body), out)
            /\ resp' = IF ProxyThrowsAfterFetch(out) THEN ProxyCatch(method)
                       ELSE ProxyRelay(out)
  /\ UNCHANGED <<claimsData, today, created, pending, page>>

ProxyGET(path, query, out) == ProxyHandle("GET", path, query, JUndef, out)
ProxyPOST(path, query, body, out) == ProxyHandle("POST", path, query, body, out)
ProxyPUT(path, query, body, out) == ProxyHandle("PUT", path, query, body, out)
ProxyDELETE(path, query, out) == ProxyHandle("DELETE", path, query, JUndef, out)

NextProxy ==
  \E path \in ProxyPaths, query \in ProxyQueries, out \in ProxyOutcomes :
    \/ ProxyGET(path, query, out)
    \/ \E body \in ProxyBodies : ProxyPOST(path, query, body, out)
    \/ \E body \in ProxyBodies : ProxyPUT(path, query, body, out)
    \/ ProxyDELETE(path, query, out)

SpecProxy == Init /\ [][NextProxy]_vars

-----------------------------------------------------------------------------
(* All routes of the service together, driven with a few requests each *)

ServiceAnalyzeRequests ==
  { r \in AnalyzeRequests :
      r.claim_type = JNull /\ r.file \in {JNull, File("scan.pdf", 1048576)} }

ServiceOutcomes ==
  { NetworkError, Response(200, JsonText(PartialData)), Response(500, BadText) }

\* The base submissions and a JSON body that cannot be read.
ServicePostRequests ==
  LargePostRequests \cup {[BaseRequest(Json) EXCEPT !.read = "reject"]}

ServiceProxyBodies == { JsonText(JObj([claim_type |-> JStr("dental")])), BadText }

NextService ==
  \/ \E status \in {JNull, JStr("pending")} : ListClaims(status)
  \/ \E id \in LookupIds : GetClaim(id)
  \/ GetStats
  \/ \E r \in ServicePostRequests : PostClaims(r)
  \/ \E r \in {BaseRequest(Json)} : LegacyPostClaims(r)
  \/ \E r \in ServiceAnalyzeRequests, out \in ServiceOutcomes : Analyze(r, out)
  \/ \E path \in ProxyPaths, query \in {"", "status=pending"}, out \in ServiceOutcomes :
       \/ ProxyGET(path, query, out)
       \/ \E body \in ServiceProxyBodies : ProxyPOST(path, query, body, out)
       \/ \E body \in ServiceProxyBodies : ProxyPUT(path, query, body, out)
       \/ ProxyDELETE(path, query, out)

SpecService == Init /\ [][NextService]_vars

-----------------------------------------------------------------------------
(* POST /api/claims handlers that interleave at their await *)

\* The handler is called: it reads the content type and suspends at
\* await request.formData() or await request.json(). calledAt is the size of
\* the store at that moment.
ReceivePost(r) ==
  /\ Len(created) + Len(pending) < MaxCreates
  /\ pending' = Append(pending, [r |-> r, calledAt |-> Len(claimsData)])
  /\ UNCHANGED <<claimsData, today, req, resp, created, fetches, page>>

\* A size of the store read before the await.
StoreSizeReadBeforeAwait(h) == h.calledAt

\* claimsData.length, read after the await in the step that pushes.
StoreSizeRead(h) == Len(claimsData)

\* The await of the i-th suspended handler settles and the handler runs to
\* its end without another await: it builds the claim, pushes it and answers
\* 201, or answers 500 from the catch block.
ResumePost(i) ==
  LET h == pending[i]
  IN /\ pending' = SubSeq(pending, 1, i - 1) \o SubSeq(pending, i + 1, Len(pending))
     /\ req' = [op |-> "POST /api/claims", r |-> h.r, calledAt |-> h.calledAt]
     /\ IF PostThrows(h.r)
        THEN /\ resp' = [status |-> 500, body |-> CreateErrorBody]
             /\ UNCHANGED <<claimsData, created>>
        ELSE LET newClaim ==
                   NewClaim(BodyOf(h.r), FilesOf(h.r), StoreSizeRead(h), today)
             IN /\ claimsData' = Push(claimsData, newClaim)
                /\ resp' = [status |-> 201, body |-> newClaim]
                /\ created' = Append(created, newClaim)
     /\ fetches' = <<>>
     /\ UNCHANGED <<today, page>>

NextConcurrent ==
  \/ \E r \in LargePostRequests : ReceivePost(r)
  \/ \E i \in 1..Len(pending) : ResumePost(i)

SpecConcurrent == Init /\ [][NextConcurrent]_vars

-----------------------------------------------------------------------------
(* The submission form (NewClaimPage) *)

MaxFiles == 2

\* The files the user picks.
PickedFiles == { File("scan.pdf", 1048576), File("bill.png", 2048) }

\* e.target.files of one change event of the file input: one or two files.
FileSelections ==
  {<<f>> : f \in PickedFiles} \cup {<<f, g>> : f \in PickedFiles, g \in PickedFiles}

\* A handler has run: the page with the handler's name and the toast it
\* showed ("" when none).
Shown(p, handler, title) == [p EXCEPT !.event = handler, !.toast = title]

\* The page component is no longer on the screen.
Gone(p) == p.renderFailed \/ p.left

\* A state setter called from an event handler, for the state named k:
\* rendered at once, and it comes after the updates that wait in the queue.
SetState(p, k, v) ==
  [p EXCEPT ![k] = v,
            !.queued = IF p.queued = NoUpdates THEN NoUpdates
                       ELSE [p.queued EXCEPT ![k] = v]]

\* setFormData((prev) => ({ ...prev, [id]: v })) from an event handler:
\* rendered at once, and applied after the updater that waits in the queue.
WithField(p, id, v) ==
  [p EXCEPT !.formData[id] = v,
            !.queued = IF p.queued = NoUpdates THEN NoUpdates
                       ELSE [p.queued EXCEPT !.formData[id] = v]]

\* handleFileChange
handleFileChange(selection) ==
  /\ ~Gone(page)
  /\ Len(page.files) + Len(selection) <= MaxFiles
  /\ page' = Shown([page EXCEPT !.files = page.files \o selection],
                   "handleFileChange", "")
  /\ UNCHANGED <<claimsData, today, req, resp, created, fetches, pending>>

\* files.filter((_, i) => i !== index), index counted from 1 here.
WithoutIndex(files, index) ==
  SubSeq(files, 1, index - 1) \o SubSeq(files, index + 1, Len(files))

\* removeFile, from the button shown with each file.
removeFile(index) ==
  /\ ~Gone(page)
  /\ index \in 1..Len(page.files)
  /\ page' = Shown(SetState(
                     [page EXCEPT !.files = WithoutIndex(page.files, index)],
                     "analysisResult", JNull),
                   "removeFile", "")
  /\ UNCHANGED <<claimsData, today, req, resp, created, fetches, pending>>

\* The Clear File button, shown while files are selected: setFiles([]).
clearFiles ==
  /\ ~Gone(page)
  /\ Len(page.files) > 0
  /\ page' = Shown([page EXCEPT !.files = <<>>], "clearFiles", "")
  /\ UNCHANGED <<claimsData, today, req, resp, created, fetches, pending>>

\* analyzeDocument up to its await fetch. The button is shown while files
\* are selected and is disabled while isAnalyzing.
analyzeDocument ==
  /\ ~Gone(page)
  /\ Len(page.files) > 0
  /\ ~page.isAnalyzing
  /\ page' = IF Len(page.files) = 0
             THEN Shown(page, "analyzeDocument", "No Document")
             ELSE Shown([SetState(page, "isAnalyzing", TRUE) EXCEPT
                           !.analyzeCall = [t |-> "call",
                                            file |-> page.files[1],
                                            claim_type |-> JStr("medical")]],
                        "analyzeDocument", "")
  /\ UNCHANGED <<claimsData, today, req, resp, created, fetches, pending>>

\* The pieces of s between spaces, from the piece that starts at position
\* start, the scan being at position i.
RECURSIVE SplitFrom(_, _, _)
SplitFrom(s, start, i) ==
  IF i > Len(s) THEN << SubSeq(s, start, Len(s)) >>
  ELSE IF SubSeq(s, i, i) = " "
       THEN << SubSeq(s, start, i - 1) >> \o SplitFrom(s, i + 1, i + 1)
       ELSE SplitFrom(s, start, i + 1)

\* s.split(" ")
SplitOnSpace(s) == SplitFrom(s, 1, 1)

\* billed_amount?.toString(): undefined on a nullish value, else the value's
\* text.
ToStringOpt(v) ==
  IF v.t \in {"undefined", "null"} THEN JUndef ELSE JStr(StringOf(v))

\* patient_name?.split(" ")[0] and patient_name?.split(" ").slice(1).join(" ")
\* of a patient_name that is nullish or a string.
FirstWord(v) ==
  IF v.t \in {"undefined", "null"} THEN JUndef ELSE JStr(SplitOnSpace(v.s)[1])
RestWords(v) ==
  IF v.t \in {"undefined", "null"} THEN JUndef
  ELSE JStr(Join([i \in 1..(Len(SplitOnSpace(v.s)) - 1) |->
                    JStr(SplitOnSpace(v.s)[i + 1])], " "))

\* The updater handed to setFormData raises a TypeError: patient_name has
\* no method split, or billed_amount has no callable toString.
AutoFillThrows(ed) ==
  \/ Prop(ed, "patient_name").t \notin {"undefined", "null", "string"}
  \/ StringThrows(Prop(ed, "billed_amount"))

\* The auto-fill of the form from result.extracted_data, for a result on
\* which the updater does not throw.
AutoFill(prev, result) ==
  LET ed == Prop(result, "extracted_data")
  IN IF ~Truthy(ed) THEN prev
     ELSE [prev EXCEPT
             !.firstName = OrElse(FirstWord(Prop(ed, "patient_name")), prev.firstName),
             !.lastName = OrElse(RestWords(Prop(ed, "patient_name")), prev.lastName),
             !.patientId = OrElse(Prop(ed, "policy_number"), prev.patientId),
             !.amount = OrElse(ToStringOpt(Prop(ed, "billed_amount")), prev.amount),
             !.serviceDate = OrElse(Prop(ed, "service_date"), prev.serviceDate)]

\* The try block of a handler throws once its fetch has settled: the fetch
\* rejected, the response is not ok, or response.json() rejected.
FetchFailed(out) ==
  \/ out.kind = "network"
  \/ out.kind = "response" /\ (~Ok(out) \/ JSONparseThrows(out.body))

\* The try block of analyzeDocument throws once its fetch has settled: the
\* fetch failed, or the answer is null and result.extracted_data cannot be
\* read.
AnalyzeFailed(out) ==
  IF FetchFailed(out) THEN TRUE ELSE JSONparse(out.body) = JNull

\* The updater of setFormData is queued and throws: it runs when the page
\* renders, after the handler and outside its try block.
UpdaterThrows(out) ==
  IF FetchFailed(out) THEN FALSE
  ELSE IF JSONparse(out.body) = JNull THEN FALSE
  ELSE LET ed == Prop(JSONparse(out.body), "extracted_data")
       IN Truthy(ed) /\ AutoFillThrows(ed)

\* Rendering v as the child of an element throws: a plain object, or an
\* array that holds one.
RECURSIVE ChildThrows(_)
ChildThrows(v) ==
  CASE v.t = "object" -> TRUE
    [] v.t = "array" -> \E i \in 1..Len(v.a) : ChildThrows(v.a[i])
    [] OTHER -> FALSE

\* The page cannot be rendered from the state p: the value of a field
\* cannot be converted to the text of its input, or the confidence or the
\* completeness of the analysis result cannot be shown.
RenderThrows(p) ==
  \/ \E k \in DOMAIN p.formData : StringThrows(p.formData[k])
  \/ /\ Truthy(p.analysisResult)
     /\ \/ ChildThrows(Prop(p.analysisResult, "confidence"))
        \/ ChildThrows(Prop(p.analysisResult, "completeness"))

\* The state the next render shows, as the updates queued so far make it,
\* and whether a queued updater throws.
Pending(p) ==
  IF p.queued # NoUpdates THEN p.queued
  ELSE [ t |-> "updates",
         analysisResult |-> p.analysisResult,
         formData |-> p.formData,
         isAnalyzing |-> p.isAnalyzing,
         isSubmitting |-> p.isSubmitting,
         updaterThrows |-> FALSE ]

\* The continuation of analyzeDocument, from the moment its fetch settles:
\* try, catch and finally. It shows its toast and queues its updates:
\* setAnalysisResult(result), which is reached on the answer null too, the
\* auto-fill, and setIsAnalyzing(false) of the finally block. The page is
\* rendered with them in a later task, and a handler that runs in between
\* still works on the state of the last render. On a page that is gone the
\* updates are dropped.
AnalyzeSettled(p, out) ==
  LET q == Pending(p)
      updates ==
        [ q EXCEPT
            !.analysisResult = IF FetchFailed(out) THEN q.analysisResult
                               ELSE JSONparse(out.body),
            !.formData = IF AnalyzeFailed(out) \/ UpdaterThrows(out)
                         THEN q.formData
                         ELSE AutoFill(q.formData, JSONparse(out.body)),
            !.isAnalyzing = FALSE,
            !.updaterThrows = q.updaterThrows \/ UpdaterThrows(out) ]
  IN [ Shown(p, "analyzeDocument",
             IF AnalyzeFailed(out) THEN "Analysis Failed"
             ELSE "Analysis Complete")
         EXCEPT !.analyzeCall = NoCall,
                !.queued = IF Gone(p) THEN NoUpdates ELSE updates ]

AnalyzeSettle(out) ==
  /\ page.analyzeCall # NoCall
  /\ page' = AnalyzeSettled(page, out)
  /\ UNCHANGED <<claimsData, today, req, resp, created, fetches, pending>>

\* The render of the queued updates. When the updater or the render throws,
\* none of the updates is shown: the page is lost with the state of its
\* last render, in which the flag of the handler is true.
Rendered(p) ==
  LET next == [p EXCEPT !.analysisResult = p.queued.analysisResult,
                        !.formData = p.queued.formData,
                        !.isAnalyzing = p.queued.isAnalyzing,
                        !.isSubmitting = p.queued.isSubmitting,
                        !.queued = NoUpdates]
  IN IF p.queued.updaterThrows \/ RenderThrows(next)
     THEN [p EXCEPT !.queued = NoUpdates, !.renderFailed = TRUE]
     ELSE next

render ==
  /\ page.queued # NoUpdates
  /\ page' = Rendered(page)
  /\ UNCHANGED <<claimsData, today, req, resp, created, fetches, pending>>

\* handleInputChange and, for claimType, handleSelectChange.
handleInputChange(id, value) ==
  /\ ~Gone(page)
  /\ page' = Shown(WithField(page, id, JStr(value)),
                   IF id = "claimType" THEN "handleSelectChange"
                   ELSE "handleInputChange", "")
  /\ UNCHANGED <<claimsData, today, req, resp, created, fetches, pending>>

\* The validation of handleSubmit: none of the nine fields is empty.
RequiredFilled(fd) == \A k \in RequiredFields : Truthy(fd[k])

\* The request handleSubmit sends: the ten fields, each appended as its text,
\* the analysis result as JSON text when there is one, and the files.
SubmitRequest(p) ==
  [ t |-> "call",
    contentType |-> Multipart,
    fields |-> [k \in DOMAIN p.formData |-> JStr(StringOf(p.formData[k]))],
    analysisResult |-> IF Truthy(p.analysisResult) THEN JsonText(p.analysisResult)
                       ELSE JNull,
    documents |-> p.files ]

\* The request of the form page that has no analysis: the fields as JSON.
JsonSubmitRequest(p) ==
  [ t |-> "call",
    contentType |-> Json,
    fields |-> p.formData,
    analysisResult |-> JUndef,
    documents |-> <<>> ]

\* handleSubmit up to its await fetch, sending request; the submit button is
\* disabled while isSubmitting. When building the request throws, the catch
\* block shows the error, finally resets isSubmitting and nothing is sent.
Submit(request, buildThrows) ==
  /\ ~Gone(page)
  /\ ~page.isSubmitting
  /\ page' = IF ~RequiredFilled(page.formData)
             THEN Shown(page, "handleSubmit", "Validation Error")
             ELSE IF buildThrows
             THEN Shown(SetState(page, "isSubmitting", FALSE),
                        "handleSubmit", "Error")
             ELSE Shown([SetState(page, "isSubmitting", TRUE) EXCEPT
                           !.submitCall = request],
                        "handleSubmit", "")
  /\ UNCHANGED <<claimsData, today, req, resp, created, fetches, pending>>

\* submitData.append raises a TypeError on a value it cannot convert.
handleSubmit ==
  Submit(SubmitRequest(page),
         \E k \in DOMAIN page.formData : StringThrows(page.formData[k]))

\* handleSubmit of the form page without analysis (claims/new/page.tsx);
\* JSON.stringify takes every value parsed from JSON.
handleSubmitJson == Submit(JsonSubmitRequest(page), FALSE)

\* The try block of handleSubmit throws once its fetch has settled: the
\* fetch failed, the answer is null and newClaim.id cannot be read, or the
\* template literal of the toast cannot convert newClaim.id.
SubmitFailed(out) ==
  IF FetchFailed(out) THEN TRUE
  ELSE IF JSONparse(out.body) = JNull THEN TRUE
  ELSE StringThrows(Prop(JSONparse(out.body), "id"))

\* The continuation of handleSubmit, from the moment its fetch settles:
\* try, catch, and finally setIsSubmitting(false), which waits for the next
\* render; on success it starts the timer of the redirect. On a page that
\* is gone the handler still shows its toast and starts the timer, and the
\* update is dropped.
SubmitSettled(p, out) ==
  [ Shown(p, "handleSubmit", IF SubmitFailed(out) THEN "Error" ELSE "Success!")
      EXCEPT !.queued = IF Gone(p) THEN NoUpdates
                        ELSE [Pending(p) EXCEPT !.isSubmitting = FALSE],
             !.submitCall = NoCall,
             !.redirectPending = IF SubmitFailed(out) THEN p.redirectPending
                                 ELSE TRUE ]

SubmitSettle(out) ==
  /\ page.submitCall # NoCall
  /\ page' = SubmitSettled(page, out)
  /\ UNCHANGED <<claimsData, today, req, resp, created, fetches, pending>>

\* The timer of a successful submit fires after 1500 ms:
\* router.push("/") leaves the page for the dashboard, and the updates that
\* wait for a render are dropped with the page.
routerPush ==
  /\ page.redirectPending
  /\ page' = [page EXCEPT !.redirectPending = FALSE,
                          !.left = TRUE,
                          !.queued = NoUpdates,
                          !.event = "router.push"]
  /\ UNCHANGED <<claimsData, today, req, resp, created, fetches, pending>>

\* What the user types: the values of the mock document for the fields the
\* analysis can fill, and one value for each of the others.
TypedValue(id) ==
  CASE id = "firstName" -> "John"
    [] id = "lastName" -> "Michael Smith"
    [] id = "patientId" -> "POL-2024-789456"
    [] id = "amount" -> "2850"
    [] id = "serviceDate" -> "2024-10-15"
    [] id = "dob" -> "1990-01-01"
    [] id = "claimType" -> "outpatient"
    [] id = "provider" -> "City Clinic"
    [] id = "diagnosis" -> "Checkup"

\* The fields the user types into; the others are left to the auto-fill.
TypedFields == {"dob", "claimType", "provider", "diagnosis"}

\* The answers to the analyze request of the page.
PageAnalyzeOutcomes ==
  { NetworkError,
    Response(200, JsonText(MockResult)),
    Response(200, JsonText(TransformedData(PartialData))),
    Response(200, JsonText(JNull)),
    Response(200, JsonText(JObj([status |-> JStr("approved"),
                                 extracted_data |->
                                   JObj([policy_number |-> JArr(<<>>)])]))),
    Response(200, JsonText(JObj([status |-> JStr("approved"),
                                 extracted_data |->
                                   JObj([policy_number |-> Unprintable])]))),
    Response(200, JsonText(JObj([status |-> JStr("approved"),
                                 extracted_data |->
                                   JObj([billed_amount |-> Unprintable])]))),
    Response(400, JsonText(NoFileBody)) }

\* The answers to the create request of the page.
PageSubmitOutcomes ==
  { NetworkError,
    Response(201, JsonText(JObj([id |-> JStr("CLM-2024-005")]))),
    Response(201, JsonText(JNull)),
    Response(201, JsonText(JObj([id |-> Unprintable]))),
    Response(500, JsonText(JObj([error |-> JStr("Failed to create claim")]))) }

NextForm ==
  \/ \E selection \in FileSelections : handleFileChange(selection)
  \/ \E index \in 1..MaxFiles : removeFile(index)
  \/ clearFiles
  \/ analyzeDocument
  \/ \E out \in PageAnalyzeOutcomes : AnalyzeSettle(out)
  \/ render
  \/ \E id \in TypedFields : handleInputChange(id, TypedValue(id))
  \/ handleSubmit
  \/ handleSubmitJson
  \/ \E out \in PageSubmitOutcomes : SubmitSettle(out)
  \/ routerPush

\* The page alone: the store of the server, which no handler of the page
\* reads, is left fixed.
InitForm == Init /\ claimsData = <<>> /\ today = SeedDate

SpecForm == InitForm /\ [][NextForm]_vars

\* Every request of the page is answered or fails in the end, queued
\* updates are rendered and a started timer fires.
SpecFormFair ==
  /\ SpecForm
  /\ WF_vars(\E out \in PageAnalyzeOutcomes : AnalyzeSettle(out))
  /\ WF_vars(\E out \in PageSubmitOutcomes : SubmitSettle(out))
  /\ WF_vars(render)
  /\ WF_vars(routerPush)

-----------------------------------------------------------------------------
(* Properties *)

PostOps == {"POST /api/claims", "POST /api/claims (legacy)"}

\* The last request was a create answered with 201.
CreateSucceeded == req.op \in PostOps /\ resp.status = 201

Ids == {claimsData[i].id : i \in 1..Len(claimsData)}

\* C1: every claim a successful POST /api/claims has appended is what a
\* lookup by its id finds, after any further creates and reads, and a
\* GET /api/claims/[id] for its id is answered 200 with exactly that claim.
C1_LookupReturnsCreated ==
  /\ \A i \in 1..Len(created) : Find(created[i].id) = created[i]
  /\ \A i \in 1..Len(created) :
       (req.op = "GET /api/claims/[id]" /\ req.id = created[i].id)
         => resp = [status |-> 200, body |-> created[i]]

\* C1 witness: after two creates and a read, the claim of the first create
\* has been looked up and returned.
C1_Witness ==
  /\ Len(created) >= 2
  /\ req.op = "GET /api/claims/[id]"
  /\ req.id = created[1].id
  /\ resp = [status |-> 200, body |-> created[1]]

\* C2: no two claims of the store have the same id.
C2_IdsDistinct ==
  \A i, j \in 1..Len(claimsData) :
    i # j => claimsData[i].id # claimsData[j].id

\* C2 witness: a seeded store that two creates have extended.
C2_Witness ==
  /\ Len(created) >= 2
  /\ Len(claimsData) >= 6
  /\ Cardinality(Ids) = Len(claimsData)

\* A required field of the request is missing or empty.
MissingRequired(r) == \E f \in RequiredFields : ~Truthy(r.fields[f])

\* C3: a create whose request lacks a required field, or holds it empty, is
\* answered with a client error (4xx) and leaves the store unchanged.
C3_MissingFieldRejected ==
  [][ ( /\ req'.op \in PostOps
        /\ req'.r.read = "ok"
        /\ MissingRequired(req'.r) )
      => ( resp'.status \in 400..499 /\ claimsData' = claimsData ) ]_vars

\* C4: a create answered with 201 appends exactly one claim, the claim of the
\* response, after the claims the store held, which stay as they were.
C4_CreateAppendsOne ==
  [][ ( req'.op \in PostOps /\ resp'.status = 201 )
      => ( /\ claimsData' = Append(claimsData, resp'.body)
           /\ Len(claimsData') = Len(claimsData) + 1
           /\ \A i \in 1..Len(claimsData) : claimsData'[i] = claimsData[i] ) ]_vars

\* C4 witness: a create over a non-empty store has answered 201 with the
\* claim now last in the store.
C4_Witness ==
  /\ CreateSucceeded
  /\ Len(claimsData) >= 2
  /\ claimsData[Len(claimsData)] = resp.body
  /\ claimsData[1] # resp.body

\* C5: the id a create assigns is CLM-<current year>-<n+1>, n the number of
\* claims in the store when the claim is created, n+1 zero-padded to 3 digits.
C5_IdHasCurrentYear ==
  [][ ( req'.op \in PostOps /\ resp'.status = 201 )
      => resp'.body.id =
           <<"C", "L", "M", "-">> \o NumberToString(today.y) \o <<"-">>
             \o padStart(NumberToString(Len(claimsData) + 1), 3, "0") ]_vars

\* The sequence part of an id: what follows CLM-<4 characters>-.
IdSequencePart(id) == SubSeq(id, 10, Len(id))

AllDigits(chars) == \A k \in 1..Len(chars) : chars[k] \in Digits

\* id has the form CLM-dddd-<digits>.
HasIdShape(id) ==
  /\ Len(id) >= 10
  /\ SubSeq(id, 1, 4) = <<"C", "L", "M", "-">>
  /\ AllDigits(SubSeq(id, 5, 8))
  /\ id[9] = "-"
  /\ AllDigits(IdSequencePart(id))

\* id matches CLM-\d{4}-\d{3}.
MatchesIdPattern(id) == HasIdShape(id) /\ Len(IdSequencePart(id)) = 3

\* C6, as claimed: every create answered with 201, whatever the size of the
\* store, yields an id that matches CLM-\d{4}-\d{3}.
C6_IdMatchesPattern ==
  \A i \in 1..Len(created) : MatchesIdPattern(created[i].id)

\* C6, amended: a create over a store of fewer than 999 claims yields an id
\* that matches CLM-\d{4}-\d{3}; over a store of 999 claims or more the id is
\* CLM-dddd- followed by more than three digits.
C6_IdMatchesPatternBelow999 ==
  [][ ( req'.op \in PostOps /\ resp'.status = 201 )
      => ( /\ HasIdShape(resp'.body.id)
           /\ Len(claimsData) < 999 => Len(IdSequencePart(resp'.body.id)) = 3
           /\ Len(claimsData) >= 999 => Len(IdSequencePart(resp'.body.id)) > 3 ) ]_vars

\* C6 witness: a create over a store of 999 claims has been answered with
\* the id CLM-2024-1000.
C6_Witness ==
  /\ CreateSucceeded
  /\ Len(claimsData) = 1000
  /\ resp.body.id = <<"C", "L", "M", "-", "2", "0", "2", "4", "-", "1", "0", "0", "0">>

\* C7: every claim of the store has one of the four status values.
C7_StatusInEnum ==
  \A i \in 1..Len(claimsData) :
    claimsData[i].status \in {JStr(s) : s \in StatusValues}

\* The analysis result a create request carries: the value of the JSON body's
\* analysisResult property, or the value the form's analysisResult text
\* encodes; null when there is none.
SuppliedAnalysis(r) ==
  IF r.contentType = Json
  THEN IF r.analysisResult = JUndef THEN JNull ELSE r.analysisResult
  ELSE IF r.analysisResult.t = "jsontext" THEN r.analysisResult.v ELSE JNull

\* An analysis result is supplied: the request carries one that is not null
\* (or another falsy value).
AnalysisSupplied(r) == Truthy(SuppliedAnalysis(r))

\* C8, as claimed: the status of a newly created claim is the status of the
\* supplied analysis result when one is supplied, and pending otherwise.
C8_StatusFromAnalysis ==
  CreateSucceeded =>
    resp.body.status =
      IF AnalysisSupplied(req.r) THEN Prop(SuppliedAnalysis(req.r), "status")
      ELSE JStr("pending")

\* The timeline the claim describes, given whether stage 2 is completed.
ExpectedTimeline(verified, dateText) ==
  [k \in 1..5 |->
    [ status |-> TimelineStages[k],
      date |-> IF k = 1 \/ (k = 2 /\ verified) THEN dateText ELSE <<>>,
      completed |-> (k = 1 \/ (k = 2 /\ verified)) ]]

\* C9, as claimed: a created claim has the five timeline entries in stage
\* order, entry 1 completed with the creation date, entry 2 completed with
\* the creation date iff an analysis result was supplied and uncompleted with
\* an empty date otherwise, entries 3 to 5 uncompleted with empty dates.
C9_TimelineFromAnalysis ==
  CreateSucceeded =>
    resp.body.timeline =
      ExpectedTimeline(AnalysisSupplied(req.r), toLocaleDateString(today))

Members(seq) == {seq[k] : k \in 1..Len(seq)}

StatusesPresent == {claimsData[i].status : i \in 1..Len(claimsData)}

\* C10: for every status value s other than the sentinel all, the listing
\* filtered by s holds only claims whose status is s, in store order; the
\* filtered listings over the distinct status values present in the store are
\* pairwise disjoint and together hold exactly the claims of the full listing.
C10_FilterPartition ==
  /\ \A s \in QueryStatuses :
       (Truthy(s) /\ s # JStr("all")) =>
         /\ \A c \in Members(Listing(s)) : c.status = s
         /\ Listing(s) =
              SelectSeq(claimsData, LAMBDA c : c \in Members(Listing(s)))
  /\ \A s1, s2 \in StatusesPresent :
       s1 # s2 => Members(Listing(s1)) \cap Members(Listing(s2)) = {}
  /\ UNION {Members(Listing(s)) : s \in StatusesPresent} = Members(Listing(JNull))

\* C11: a listing with the status filter absent or equal to the sentinel all
\* is answered with the full store sequence, the same as the unfiltered
\* listing.
C11_UnfilteredListing ==
  ( req.op = "GET /api/claims" /\ req.status \in {JNull, JStr("all")} )
    => ( resp.status = 200 /\ resp.body = claimsData )

\* C11 witness: ?status=all has been answered with a store that holds claims
\* of several statuses.
C11_Witness ==
  /\ req.op = "GET /api/claims"
  /\ req.status = JStr("all")
  /\ Len(resp.body) >= 5
  /\ Cardinality(StatusesPresent) >= 2
  /\ Len(created) >= 1

\* The initial store of the behaviour: the claims below the created ones.
InitialStore == SubSeq(claimsData, 1, Len(claimsData) - Len(created))

IsPrefix(a, b) == Len(a) <= Len(b) /\ SubSeq(b, 1, Len(a)) = a

\* C12: the full listing is the initial store followed by the created claims
\* in the order their creates completed, and every create leaves the listing
\* before it as a prefix of the listing after it.
C12_InsertionOrder ==
  /\ [] ( /\ InitialStore \in {SeedStore(n) : n \in SeedSizes}
          /\ Listing(JNull) = InitialStore \o created )
  /\ [][ /\ IsPrefix(Listing(JNull), Listing(JNull)')
         /\ (created' # created) =>
              Listing(JNull)' = Listing(JNull) \o <<created'[Len(created')]>>
       ]_vars

\* C12 witness: two creates with different claims have extended a seeded
\* store, and the full listing has been read.
C12_Witness ==
  /\ Len(created) = 2
  /\ created[1].status # created[2].status
  /\ Len(claimsData) = 6
  /\ req.op = "GET /api/claims"
  /\ req.status = JNull
  /\ resp.body[5] = created[1]
  /\ resp.body[6] = created[2]

\* C13: the total that GET /api/stats reports is the number of claims of the
\* full listing.
C13_StatsTotal ==
  req.op = "GET /api/stats" =>
    ( resp.status = 200 /\ resp.body.total = Len(Listing(JNull)) )

\* C13 witness: stats have been read after a create over a seeded store.
C13_Witness ==
  /\ req.op = "GET /api/stats"
  /\ Len(created) >= 1
  /\ resp.body.total = 5

NumberWithStatus(status) ==
  Cardinality({i \in 1..Len(claimsData) : claimsData[i].status = JStr(status)})

\* C14: approved + pending + rejected of the stats is at most total, and less
\* than total when the store holds an under-review claim; each of the three
\* counters is the number of stored claims with that status.
C14_StatsCounters ==
  req.op = "GET /api/stats" =>
    LET st == resp.body
        sum == st.approved + st.pending + st.rejected
    IN /\ sum <= st.total
       /\ NumberWithStatus("under-review") > 0 => sum < st.total
       /\ st.approved = NumberWithStatus("approved")
       /\ st.pending = NumberWithStatus("pending")
       /\ st.rejected = NumberWithStatus("rejected")

\* C14 witness: stats read over a store with an under-review claim and a
\* created approved claim count fewer claims than the total.
C14_Witness ==
  /\ req.op = "GET /api/stats"
  /\ NumberWithStatus("under-review") = 1
  /\ \E i \in 1..Len(created) : created[i].status = JStr("approved")
  /\ resp.body.approved = 2
  /\ resp.body.approved + resp.body.pending + resp.body.rejected < resp.body.total

\* The last request was an analysis whose external call was answered with a
\* body the normalizer turned into the response.
Normalized ==
  /\ req.op = "POST /api/proxy/analyze"
  /\ Len(fetches) = 1
  /\ ~AnalyzeThrowsAfterFetch(fetches[1].outcome)

\* The body the external service answered the last analysis with.
AnalyzedData == JSONparse(fetches[1].outcome.body)

OverallStatus(data) == OptProp(DocumentAnalysis(data), "overall_status")

Present(v) == v.t \notin {"undefined", "null"}

\* The status the normalizer is said to give: taken(v) tells whether a value
\* counts as given.
StatusBy(data, taken(_)) ==
  IF OverallStatus(data) = JStr("COMPLETE") THEN JStr("approved")
  ELSE IF OverallStatus(data) = JStr("INCOMPLETE") THEN JStr("pending")
  ELSE IF taken(OverallStatus(data)) THEN OverallStatus(data)
  ELSE IF taken(Prop(data, "status")) THEN Prop(data, "status")
  ELSE JStr("pending")

\* C15 as stated: COMPLETE gives approved, INCOMPLETE gives pending, any other
\* present overall_status is passed through, and an absent one gives the
\* top-level status if present and pending otherwise.
C15_StatusMapping ==
  Normalized => resp.body.o.status = StatusBy(AnalyzedData, Present)

\* C15 amended: COMPLETE gives approved, INCOMPLETE gives pending, any other
\* non-empty overall_status is passed through, and an absent or empty one
\* gives the top-level status if that is non-empty and pending otherwise.
C15_StatusMappingNonEmpty ==
  Normalized => resp.body.o.status = StatusBy(AnalyzedData, Truthy)

\* C15 witness: an INCOMPLETE analysis has been normalized to pending.
C15_Witness ==
  /\ Normalized
  /\ OverallStatus(AnalyzedData) = JStr("INCOMPLETE")
  /\ resp.body.o.status = JStr("pending")

\* The external call of the last analysis failed: no connection, a non-2xx
\* response, or a body that is not JSON.
ExternalCallFailed ==
  /\ req.op = "POST /api/proxy/analyze"
  /\ Len(fetches) = 1
  /\ LET out == fetches[1].outcome
     IN \/ out.kind = "network"
        \/ out.kind = "response" /\ (out.status < 200 \/ out.status > 299)
        \/ out.kind = "response" /\ JSONparseThrows(out.body)

\* C16: when the external analysis call fails, the analysis is answered with
\* the fixed mock result as a success response, never with an error.
C16_MockOnFailure ==
  ExternalCallFailed =>
    /\ resp.status = 200
    /\ resp.body = MockResult
    /\ resp.body.o.status = JStr("approved")
    /\ resp.body.o.confidence = JNum(95)
    /\ resp.body.o.completeness = JNum(100)
    /\ Len(resp.body.o.improvement_suggestions.a) = 2
    /\ "error" \notin DOMAIN resp.body.o

\* C16 witness: the external service answered 500 and the caller got the
\* mock result with status 200.
C16_Witness ==
  /\ ExternalCallFailed
  /\ fetches[1].outcome.kind = "response"
  /\ fetches[1].outcome.status = 500
  /\ resp = [status |-> 200, body |-> MockResult]

ErrorTexts(data) ==
  LET ve == OptProp(DocumentAnalysis(data), "validation_errors")
  IN IF ve.t = "array" THEN [i \in 1..Len(ve.a) |-> Prop(ve.a[i], "error")]
     ELSE <<>>

\* C17: the normalized decision_reasoning is processing_notes when that is
\* non-empty, otherwise the error texts of validation_errors joined with a
\* period when the join is non-empty, otherwise the text Document analyzed
\* successfully.
C17_DecisionReasoning ==
  Normalized =>
    LET notes == OptProp(DocumentAnalysis(AnalyzedData), "processing_notes")
        joined == Join(ErrorTexts(AnalyzedData), ". ")
    IN resp.body.o.decision_reasoning =
         IF Truthy(notes) THEN notes
         ELSE IF joined # "" THEN JStr(joined)
         ELSE JStr("Document analyzed successfully")

\* C17 witness: an analysis without notes and with two validation errors has
\* been normalized to the two error texts joined.
C17_Witness ==
  /\ Normalized
  /\ Len(ErrorTexts(AnalyzedData)) = 2
  /\ resp.body.o.decision_reasoning = JStr("Missing policy number. Missing date")

Proxied == req.op = "/api/proxy/[...path]" /\ Len(fetches) = 1

\* The backend url of the sub-path of the last request, without a query.
BackendUrlOfPath == FLASK_APP_URL \o "/" \o Join(req.path, "/")

ProxyFailed ==
  /\ req.op = "/api/proxy/[...path]"
  /\ \/ req.method \in {"POST", "PUT"} /\ JSONparseThrows(req.body)
     \/ /\ Len(fetches) = 1
        /\ \/ fetches[1].outcome.kind = "network"
           \/ /\ fetches[1].outcome.kind = "response"
              /\ JSONparseThrows(fetches[1].outcome.body)

\* C19: a failed proxy request is answered with status 500 and an error body
\* fixed for the method, with nothing of the failure in it.
C19_ProxyFailure ==
  ProxyFailed =>
    /\ resp.status = 500
    /\ DOMAIN resp.body.o = {"error"}
    /\ \/ req.method = "GET"
          /\ resp.body.o.error = JStr("Failed to fetch from FastAPI server")
       \/ req.method = "POST"
          /\ resp.body.o.error = JStr("Failed to post to FastAPI server")
       \/ req.method = "PUT"
          /\ resp.body.o.error = JStr("Failed to update on FastAPI server")
       \/ req.method = "DELETE"
          /\ resp.body.o.error = JStr("Failed to delete on FastAPI server")

\* C19 witness: a POST whose body is not JSON was answered 500 without a
\* call to the backend.
C19_Witness ==
  /\ ProxyFailed
  /\ req.method = "POST"
  /\ req.body = BadText
  /\ fetches = <<>>
  /\ resp.status = 500

\* C20: GET and PUT pass the query string of the request on in the backend
\* url, POST and PUT forward the JSON body, and POST and DELETE do not
\* forward the query string.
C20_QueryAndBody ==
  Proxied =>
    LET call == fetches[1].call
    IN /\ req.method \in {"GET", "PUT"} /\ req.query # ""
            => call.url = BackendUrlOfPath \o "?" \o req.query
       /\ req.method \in {"POST", "DELETE"} \/ req.query = ""
            => call.url = BackendUrlOfPath
       /\ req.method \in {"POST", "PUT"}
            => /\ ~JSONparseThrows(call.body)
               /\ JSONparse(call.body) = JSONparse(req.body)

\* C20 witness: a DELETE with a query string was sent to the backend without
\* it.
C20_Witness ==
  /\ Proxied
  /\ req.method = "DELETE"
  /\ req.query = "page=2&limit=10"
  /\ fetches[1].call.url = "http://localhost:8000/api/claims/42"

\* C21: an analyze request and a proxy request issue at most one call to the
\* external service, whether the call succeeds or fails, and are answered
\* with exactly one response.
C21_NoRetries ==
  req.op \in {"POST /api/proxy/analyze", "/api/proxy/[...path]"} =>
    /\ Len(fetches) <= 1
    /\ resp # NoResponse
    /\ resp.status >= 200 /\ resp.status <= 599

\* C21 witness: a proxy GET whose call to the backend found no connection
\* was answered 500 after that one call.
C21_Witness ==
  /\ req.op = "/api/proxy/[...path]"
  /\ req.method = "GET"
  /\ Len(fetches) = 1
  /\ fetches[1].outcome = NetworkError
  /\ resp.status = 500
  /\ Len(created) >= 1

\* C22: GET /api/claims/[id] answers with the stored claim of that id when
\* there is one, and with 404 and a not-found message when there is none; the
\* claim it answers with never has another id.
C22_LookupOrNotFound ==
  req.op = "GET /api/claims/[id]" =>
    LET hits == {i \in 1..Len(claimsData) : claimsData[i].id = req.id}
    IN IF hits # {}
       THEN /\ resp.status = 200
            /\ \E i \in hits : resp.body = claimsData[i]
            /\ resp.body.id = req.id
       ELSE resp = [status |-> 404, body |-> [error |-> "Claim not found"]]

\* C22 witness: after a create over a seeded store, the id the scheme would
\* assign next was asked for and answered 404.
C22_Witness ==
  /\ req.op = "GET /api/claims/[id]"
  /\ Len(created) >= 1
  /\ Len(claimsData) >= 5
  /\ req.id = newClaimId(Len(claimsData))
  /\ resp.status = 404

\* C23: the store is append-only: over list, detail, stats, create, analyze
\* and proxy operations no claim is removed, the length of the store never
\* decreases, and the id, status and timeline of a stored claim never change.
C23_AppendOnly ==
  [][ /\ Len(claimsData') >= Len(claimsData)
      /\ \A i \in 1..Len(claimsData) :
           /\ \E j \in 1..Len(claimsData') : claimsData'[j] = claimsData[i]
           /\ claimsData'[i].id = claimsData[i].id
           /\ claimsData'[i].status = claimsData[i].status
           /\ claimsData'[i].timeline = claimsData[i].timeline
    ]_vars

\* C23 witness: two creates have extended the seeded store, whose four
\* claims are still its first four, and a filtered listing has been read.
C23_Witness ==
  /\ Len(created) = 2
  /\ Len(claimsData) = 6
  /\ SubSeq(claimsData, 1, 4) = SeedStore(4)
  /\ req.op = "GET /api/claims"
  /\ req.status = JStr("pending")
  /\ Len(resp.body) < 6

\* The files a create request uploads, in upload order: the File entries of
\* the documents field of a multipart body, none for a JSON body.
RECURSIVE FilesAmong(_)
FilesAmong(entries) ==
  IF entries = <<>> THEN <<>>
  ELSE IF Head(entries).t = "file"
       THEN <<Head(entries)>> \o FilesAmong(Tail(entries))
       ELSE FilesAmong(Tail(entries))

UploadedFiles(r) ==
  IF r.contentType = Multipart THEN FilesAmong(r.documents) ELSE <<>>

\* The claim carries an aiAnalysis record.
HasAiAnalysis(claim) ==
  "aiAnalysis" \in DOMAIN claim /\ claim.aiAnalysis # JNull

\* C24: a created claim has one documents entry per uploaded file, in upload
\* order, and no documents entry when no file is uploaded, as in every JSON
\* submission; it carries an aiAnalysis record if and only if an analysis
\* result was supplied.
C24_DocumentsAndAnalysis ==
  CreateSucceeded =>
    LET uploaded == UploadedFiles(req.r)
        docs == resp.body.documents
    IN /\ Len(docs) = Len(uploaded)
       /\ \A k \in 1..Len(uploaded) : docs[k].name = uploaded[k].name
       /\ req.r.contentType = Json => docs = <<>>
       /\ HasAiAnalysis(resp.body) <=> AnalysisSupplied(req.r)

\* C25: when POST /api/claims handlers interleave at their awaits, no two
\* claims get the same id and no append is lost: the store is its initial
\* contents followed by the claim of every create answered with 201.
C25_InterleavedCreates ==
  /\ \A i, j \in 1..Len(claimsData) :
       i # j => claimsData[i].id # claimsData[j].id
  /\ InitialStore \in {SeedStore(n) : n \in SeedSizes}
  /\ claimsData = InitialStore \o created
  /\ \A i \in 1..Len(created) :
       created[i].id = newClaimId(Len(InitialStore) + i - 1)

\* C25 witness: two creates have completed, and the one that completed last
\* had been called before either claim was in the store.
C25_Witness ==
  /\ Len(created) = 2
  /\ CreateSucceeded
  /\ req.calledAt = Len(claimsData) - 2
  /\ claimsData[Len(claimsData)] = resp.body
  /\ created[1].id # created[2].id

\* The body of a create request cannot be read: a JSON body that is not
\* JSON, or a multipart body whose analysisResult field is not JSON.
BodyUnreadable(r) ==
  \/ r.contentType = Json /\ r.read = "reject"
  \/ r.contentType = Multipart /\ r.analysisResult = BadText

\* C26: a POST /api/claims whose body cannot be read is answered 500 and
\* leaves the store as it was; the store changes only in the step that
\* appends the claim and answers 201.
C26_UnreadableBody ==
  [][ /\ (req'.op \in PostOps /\ BodyUnreadable(req'.r))
         => (resp'.status = 500 /\ claimsData' = claimsData)
      /\ claimsData' # claimsData
         => /\ req'.op \in PostOps
            /\ resp'.status = 201
            /\ claimsData' = Append(claimsData, resp'.body)
    ]_vars

\* C26 witness: after a create, a multipart request whose analysisResult is
\* not JSON has been answered 500 with the store still at five claims.
C26_Witness ==
  /\ req.op = "POST /api/claims"
  /\ req.r.contentType = Multipart
  /\ req.r.analysisResult = BadText
  /\ resp.status = 500
  /\ Len(created) = 1
  /\ Len(claimsData) = 5

\* C27: an analyze request without a file is answered 400 and makes no call
\* to the external service; the mock result is the answer only when reading
\* the request failed or the call to the service failed, never for a missing
\* file.
C27_MissingFile ==
  req.op = "POST /api/proxy/analyze" =>
    /\ (req.r.readable /\ req.r.file \in {JNull, JStr("")})
         => /\ resp.status = 400
            /\ resp.body = JObj([error |-> JStr("No file provided")])
            /\ fetches = <<>>
    /\ resp.body = MockResult
         => \/ ~req.r.readable
            \/ /\ req.r.file \notin {JNull, JStr("")}
               /\ Len(fetches) = 1
               /\ AnalyzeThrowsAfterFetch(fetches[1].outcome)

\* C27 witness: a readable request with a claim type and no file has been
\* answered 400 without a call.
C27_Witness ==
  /\ req.op = "POST /api/proxy/analyze"
  /\ req.r.readable
  /\ req.r.file = JNull
  /\ req.r.claim_type = JStr("dental")
  /\ resp.status = 400
  /\ fetches = <<>>

\* The nine fields the form requires.
NineFields ==
  { "firstName", "lastName", "dob", "patientId", "claimType", "serviceDate",
    "provider", "amount", "diagnosis" }

AllNineFilled(fd) == \A k \in NineFields : fd[k] # JStr("")

C29_AnalysisHasFile ==
  /\ page.analysisResult # JNull => Len(page.files) > 0
  /\ ( page.submitCall # NoCall /\ page.submitCall.contentType = Multipart )
       => ( page.submitCall.analysisResult # JNull
              => Len(page.submitCall.documents) > 0 )

\* C30: on the page, while it is shown, isAnalyzing and isSubmitting are
\* true only while the request of their handler is in flight or its answer
\* waits to be rendered, and each is false again once that request has
\* completed, however it ended.
C30_FlagsReset ==
  /\ [] ( (page.isAnalyzing /\ ~page.left)
            => (page.analyzeCall # NoCall \/ page.queued # NoUpdates) )
  /\ [] ( (page.isSubmitting /\ ~page.left)
            => (page.submitCall # NoCall \/ page.queued # NoUpdates) )
  /\ page.isAnalyzing ~> (~page.isAnalyzing \/ page.left)
  /\ page.isSubmitting ~> (~page.isSubmitting \/ page.left)

====
